---- MODULE Spec2Model ----
(***************************************************************************)
(* Model of kama-dbm: the migration runner (kamadbm/migrator.py), the       *)
(* checksum-gated manifest import and the Regular importer                 *)
(* (kamadbm/importer.py), the Regular extractor (kamadbm/extractor.py),    *)
(* the strategy registry and command dispatch (kamadbm/cli.py,             *)
(* kamadbm/command.py).                                                    *)
(*                                                                         *)
(* File names, paths and manifest lines are sequences of one-character     *)
(* strings, so that basename, extension removal, split("__"), replace()    *)
(* and string comparison are computed the way Python computes them.        *)
(***************************************************************************)
EXTENDS Integers, Sequences, FiniteSets, TLC

(***************************************************************************)
(* Bounds of the model.                                                    *)
(***************************************************************************)
MaxRuns == 2          \* migrate invocations explored
MaxFiles == 2         \* migration files present on disk
MaxExtraPaths == 1    \* add_migration_path calls explored
MaxImportRuns == 2    \* import invocations explored
MaxEdits == 2         \* rewrites of data files explored

(***************************************************************************)
(* Characters and strings.                                                 *)
(***************************************************************************)
\* The characters used, in code point order (Python compares str by code point).
Alphabet ==
    << "\n", " ", "#", ".", "/", "1", "2", "3", "4", "\\", "_",
       "a", "b", "c", "d", "e", "f", "s", "v", "x" >>

Ord(c) == CHOOSE i \in 1..Len(Alphabet) : Alphabet[i] = c

\* Python: s < t on str.
StrLess(s, t) ==
    \E i \in 1..(Len(t)) :
        /\ \A j \in 1..(i - 1) : j <= Len(s) /\ s[j] = t[j]
        /\ \/ i = Len(s) + 1
           \/ i <= Len(s) /\ Ord(s[i]) < Ord(t[i])

StrLeq(s, t) == s = t \/ StrLess(s, t)

\* Index of the last occurrence of character c in s, 0 when absent (str.rfind + 1).
LastIndexOf(s, c) ==
    LET hits == {i \in 1..Len(s) : s[i] = c}
    IN  IF hits = {} THEN 0 ELSE CHOOSE i \in hits : \A j \in hits : j <= i

\* str.replace(from, to) for a single character.
ReplaceChar(s, from, to) == [i \in 1..Len(s) |-> IF s[i] = from THEN to ELSE s[i]]

\* str.replace(c, "") for a single character.
RemoveChar(s, c) == SelectSeq(s, LAMBDA x : x # c)

\* os.path.basename / Path(p).name on a POSIX path.
Basename(path) == SubSeq(path, LastIndexOf(path, "/") + 1, Len(path))

\* os.path.join(directory, name).
PathJoin(directory, name) == directory \o <<"/">> \o name

\* kutil.file.remove_extension_from_path: the path without its last extension
\* (os.path.splitext(p)[0]: a dot that only follows leading dots is no extension).
RemoveExtension(p) ==
    LET sep == LastIndexOf(p, "/")
        dot == LastIndexOf(p, ".")
    IN  IF dot > sep /\ \E k \in (sep + 1)..(dot - 1) : p[k] # "."
        THEN SubSeq(p, 1, dot - 1)
        ELSE p

\* str.split("__"): left to right, non-overlapping.
RECURSIVE SplitFrom(_, _, _, _)
SplitFrom(s, i, cur, acc) ==
    IF i > Len(s) THEN Append(acc, cur)
    ELSE IF i + 1 <= Len(s) /\ s[i] = "_" /\ s[i + 1] = "_"
         THEN SplitFrom(s, i + 2, <<>>, Append(acc, cur))
         ELSE SplitFrom(s, i + 1, Append(cur, s[i]), acc)

SplitDunder(s) == SplitFrom(s, 1, <<>>, <<>>)

\* str.split(c) for a single character c.
RECURSIVE SplitCharFrom(_, _, _, _, _)
SplitCharFrom(s, c, i, cur, acc) ==
    IF i > Len(s) THEN Append(acc, cur)
    ELSE IF s[i] = c
         THEN SplitCharFrom(s, c, i + 1, <<>>, Append(acc, cur))
         ELSE SplitCharFrom(s, c, i + 1, Append(cur, s[i]), acc)

SplitChar(s, c) == SplitCharFrom(s, c, 1, <<>>, <<>>)

\* The whitespace characters str.strip() removes, among those used.
Whitespace == {" ", "\n"}

\* str.strip().
Strip(s) ==
    LET keep == {i \in 1..Len(s) : s[i] \notin Whitespace}
    IN  IF keep = {} THEN <<>>
        ELSE SubSeq(s, CHOOSE i \in keep : \A j \in keep : i <= j,
                       CHOOSE i \in keep : \A j \in keep : j <= i)

\* str.startswith(c) for a single character c.
StartsWith(s, c) == Len(s) > 0 /\ s[1] = c


(***************************************************************************)
(* The files and directories explored.                                     *)
(***************************************************************************)
D1 == <<"d", "1">>
D2 == <<"d", "2">>
Dirs == {D1, D2}

NameA    == <<"v", "1", "_", "_", "a", ".", "s">>              \* v1__a.s
NameABak == <<"v", "1", "_", "_", "a", ".", "s", ".", "x">>    \* v1__a.s.x
NameB    == <<"v", "2", "_", "1", "_", "_", "b", "_", "c">>    \* v2_1__b_c
NameBad  == <<"v", "3", "_", "d", ".", "s">>                   \* v3_d.s
NameTwo  == <<"v", "4", "_", "_", "d", "_", "_", "e", ".", "s">> \* v4__d__e.s

\* The migration files that may appear on disk, as <<directory, file name>>.
FileUniverse ==
    { <<D1, NameB>>, <<D1, NameBad>>,
      <<D2, NameA>>, <<D2, NameABak>>, <<D2, NameTwo>> }

\* The values of --migration_directories explored (nargs="+": never empty).
ArgDirChoices == { <<D2>>, <<D1, D2>>, <<D2, D1>> }

SchemaVersionTable == "schema_version"
ImportDataVersionTable == "import_data_version"

VARIABLES
    disk,                   \* migration files present: a subset of FileUniverse
    extra_migration_paths,  \* DatabaseCLI.__migration_paths
    tables,                 \* names of the tables that exist in the database
    schema_version,         \* rows of schema_version, in insertion (id) order
    executed,               \* scripts run by executescript: [run, path], in order
    pc,                     \* position of the migrate run: "idle", "loop", "update"
    migrations,             \* __migrate: the sorted list of migration paths
    idx,                    \* __migrate: position of the for loop in migrations
    runs,                   \* migrate invocations started so far
    result,                 \* how the last migrate run ended
    checks,                 \* __migration_exists calls made by the current run
    cur,                    \* what the current run found when it started
    prev                    \* directories and files of the last run that ended normally

migrateVars ==
    << disk, extra_migration_paths, tables, schema_version, executed, pc,
       migrations, idx, runs, result, checks, cur, prev >>

VARIABLES
    data_files,             \* content version of each data file path, 0: no such file
    edits,                  \* rewrites of data files made so far
    import_data_version,    \* rows of import_data_version (file_name is the key)
    ipc,                    \* position of the import run: "idle", "scan", "import"
    lines,                  \* _execute_command: definition_file.split("\n")
    line_no,                \* _execute_command: position of the for loop in lines
    files_to_import,        \* _execute_command: the queue of changed files
    import_no,              \* _execute_command: position of the second for loop
    import_runs,            \* import invocations started so far
    import_result,          \* how the last import run ended
    scanned,                \* manifest entries compared: [run, file_name, stored, actual]
    saves,                  \* save() calls on tracking records: [run, scan, row]
    imports,                \* importer invocations: [run, path, content, importer]
    import_mode,            \* the last import run: "none", "direct", "manifest"
    import_args,            \* the args of the last import run
    read_log                \* files the last import run read or hashed: [op, path]

importVars ==
    << data_files, edits, import_data_version, ipc, lines, line_no, files_to_import,
       import_no, import_runs, import_result, scanned, saves, imports, import_mode,
       import_args, read_log >>

VARIABLES
    importers,              \* DatabaseCLI.__importers: tag -> importer
    extractors,             \* DatabaseCLI.__extractors: tag -> extractor
    registered              \* the add_importer and add_extractor calls made, in order

cliVars == << importers, extractors, registered >>

VARIABLES
    db_rows,                \* the persisted rows of the data table, in insertion order
    import_table,           \* do_import's table object: [filter, loaded, removed, added]
    dpc,                    \* do_import: "idle", "retrieved", "adding"
    import_file,            \* the envelope do_import read
    add_no,                 \* index into the envelope's data of the next record
    table_runs,             \* number of do_import and do_extract calls started
    table_result,           \* how the last call ended
    rows_before,            \* db_rows when the current do_import started
    table_saves,            \* db_rows after each save() of the current do_import
    add_calls,              \* keyword arguments of each add() of the current do_import
    extract_rows,           \* the rows the last do_extract retrieved
    extract_file,           \* the envelope the last do_extract saved
    call,                   \* the last call: the strategy object and the args, and
                            \* what it follows: [op, self, file_path, filter, again, exported]
    import_data,            \* do_import: data, the records _format_data returned
    hook_calls              \* the hook calls of the last call: arguments and return value

dataVars ==
    << db_rows, import_table, dpc, import_file, add_no, table_runs, table_result,
       rows_before, table_saves, add_calls, extract_rows, extract_file, call,
       import_data, hook_calls >>

VARIABLES
    run_pc,                 \* "idle", or "command" while a command's logic runs
    run_call,               \* the call in progress: [via_run, args, manager, calls]
    run_log                 \* the calls that ended, with how they ended

runVars == << run_pc, run_call, run_log >>

vars == << migrateVars, importVars, cliVars, dataVars, runVars >>

(***************************************************************************)
(* DatabaseCLI: the strategy registry. Class names and tags are sequences  *)
(* of words, so that the tag is derived from the class name as the code    *)
(* derives it.                                                             *)
(***************************************************************************)
\* cli.py 26: DatabaseCLI.Regular.
Regular == <<"Regular">>

\* What dict.get returns for a missing key.
None == [ class |-> <<"NoneType">> ]

\* The None of an argument that holds no string. A string is a sequence of
\* single characters, so this value is none of them.
NoneArg == << "None" >>

\* A plausible slip: the check for a missing argument never fires.
IsNoneNever(arg) == FALSE

\* importer.py 145, command.py 61: "is None" on an argument.
IsNone(arg) == arg = NoneArg

RegularImporter == [ class |-> <<"Regular", "Importer">> ]
CustomImporter  == [ class |-> <<"Custom", "Importer">> ]
RegularExtractor == [ class |-> <<"Regular", "Extractor">> ]
CustomExtractor  == [ class |-> <<"Custom", "Extractor">> ]

\* str.replace(word, "") on a class name.
RemoveWord(name, word) == SelectSeq(name, LAMBDA w : w # word)

\* dict.get(key).
DictGet(dict, key) == IF key \in DOMAIN dict THEN dict[key] ELSE None

\* A plausible slip: the first value stored under a key stays.
DictSetDefault(dict, key, value) ==
    [ k \in DOMAIN dict \cup {key} |-> IF k \in DOMAIN dict THEN dict[k] ELSE value ]

\* dict[key] = value.
DictSet(dict, key, value) ==
    [ k \in DOMAIN dict \cup {key} |-> IF k = key THEN value ELSE dict[k] ]

\* cli.py 99-109: add_importer, on the dict it updates.
AddImporterTo(dict, importer) ==
    DictSet(dict, RemoveWord(importer.class, "Importer"), importer)

\* cli.py 111-121: add_extractor, on the dict it updates.
AddExtractorTo(dict, extractor) ==
    DictSet(dict, RemoveWord(extractor.class, "Extractor"), extractor)

\* cli.py 31-48: the registries after __init__ and post_init.
EmptyDict == [ k \in {} |-> None ]
PostInitImporters == AddImporterTo(EmptyDict, RegularImporter)
PostInitExtractors == AddExtractorTo(EmptyDict, RegularExtractor)

\* A plausible slip: no fallback.
LookupOnly(dict, name) == DictGet(dict, name)

\* cli.py 81-82 and 96-97: dict.get(name) or dict.get(self.Regular).
LookupOrRegular(dict, name) ==
    LET found == DictGet(dict, name)
    IN  IF found # None THEN found ELSE DictGet(dict, Regular)

\* cli.py 69-82: get_importer.
GetImporter(name) == LookupOrRegular(importers, name)

\* cli.py 84-97: get_extractor.
GetExtractor(name) == LookupOrRegular(extractors, name)

\* cli.py 41-48: the calls post_init makes.
PostInitCalls ==
    << [ kind |-> "importer", strategy |-> RegularImporter ],
       [ kind |-> "extractor", strategy |-> RegularExtractor ] >>

\* cli.py 31-48: the registry after __init__ and post_init.
PostInit ==
    /\ importers = PostInitImporters
    /\ extractors = PostInitExtractors
    /\ registered = PostInitCalls

\* cli.py 99-121: the registry after a plugin registered its strategies.
WithPlugin ==
    /\ importers = AddImporterTo(PostInitImporters, CustomImporter)
    /\ extractors = AddExtractorTo(PostInitExtractors, CustomExtractor)
    /\ registered = PostInitCalls
           \o << [ kind |-> "importer", strategy |-> CustomImporter ],
                 [ kind |-> "extractor", strategy |-> CustomExtractor ] >>

\* The registries explored: the defaults alone, or with a plugin's strategies.
RegistryInit == PostInit \/ WithPlugin

\* add_importer and add_extractor calls explored after post_init.
MaxAdds == 3

\* The strategy objects a host or its plugins register: a second object of the
\* Custom classes, and classes of another module named like the Regular ones.
OtherCustomImporter == [ class |-> <<"Custom", "Importer">>, object |-> 2 ]
PluginRegularImporter == [ class |-> <<"Regular", "Importer">>, object |-> 2 ]
OtherCustomExtractor == [ class |-> <<"Custom", "Extractor">>, object |-> 2 ]
PluginRegularExtractor == [ class |-> <<"Regular", "Extractor">>, object |-> 2 ]

ImporterObjects == { CustomImporter, OtherCustomImporter, PluginRegularImporter }
ExtractorObjects == { CustomExtractor, OtherCustomExtractor, PluginRegularExtractor }

\* cli.py 99-109: add_importer.
AddImporter(importer) ==
    /\ Len(registered) < Len(PostInitCalls) + MaxAdds
    /\ importers' = AddImporterTo(importers, importer)
    /\ registered' = Append(registered, [ kind |-> "importer", strategy |-> importer ])
    /\ UNCHANGED extractors
    /\ UNCHANGED << migrateVars, importVars, dataVars, runVars >>

\* cli.py 111-121: add_extractor.
AddExtractor(extractor) ==
    /\ Len(registered) < Len(PostInitCalls) + MaxAdds
    /\ extractors' = AddExtractorTo(extractors, extractor)
    /\ registered' = Append(registered, [ kind |-> "extractor", strategy |-> extractor ])
    /\ UNCHANGED importers
    /\ UNCHANGED << migrateVars, importVars, dataVars, runVars >>

RegistryNext ==
    \/ \E importer \in ImporterObjects : AddImporter(importer)
    \/ \E extractor \in ExtractorObjects : AddExtractor(extractor)

(***************************************************************************)
(* MigrateCommand.                                                         *)
(***************************************************************************)
\* os.listdir(directory): the names in the directory (in some order).
DirNames(directory) == { f[2] : f \in { g \in disk : g[1] = directory } }

\* The orders in which the elements of S can be listed.
Orderings(S) ==
    { s \in [1..Cardinality(S) -> S] :
        \A i, j \in 1..Cardinality(S) : i # j => s[i] # s[j] }

\* The listings os.listdir may return: one order per directory.
Listings ==
    LET all == UNION { Orderings(DirNames(d)) : d \in Dirs }
    IN  { ls \in [Dirs -> all] : \A d \in Dirs : ls[d] \in Orderings(DirNames(d)) }

\* migrator.py 62-66: the flattened list of os.path.join(directory, name).
RECURSIVE Flatten(_, _, _)
Flatten(dirs, ls, i) ==
    IF i > Len(dirs) THEN <<>>
    ELSE [k \in 1..Len(ls[dirs[i]]) |-> PathJoin(dirs[i], ls[dirs[i]][k])]
         \o Flatten(dirs, ls, i + 1)

\* A plausible slip: sorting the joined paths themselves.
SortKeyFullPath(path) == path

\* migrator.py 68: key=os.path.basename.
SortKey(path) == Basename(path)

\* One step of a stable sort: x goes after every element whose key is <= its key.
InsertSorted(sorted, x) ==
    LET n == Cardinality({ i \in 1..Len(sorted) :
                             StrLeq(SortKey(sorted[i]), SortKey(x)) })
    IN  SubSeq(sorted, 1, n) \o <<x>> \o SubSeq(sorted, n + 1, Len(sorted))

RECURSIVE SortFrom(_, _, _)
SortFrom(list, i, acc) ==
    IF i > Len(list) THEN acc
    ELSE SortFrom(list, i + 1, InsertSorted(acc, list[i]))

\* migrator.py 68: migrations.sort(key=os.path.basename); list.sort is stable.
SortMigrations(list) == SortFrom(list, 1, <<>>)

\* migrator.py 92-98: SELECT 1 FROM schema_version WHERE file_name = ?
MigrationExists(migration_name) ==
    \E i \in 1..Len(schema_version) : schema_version[i].file_name = migration_name

\* A plausible slip: rejecting only names with no separator.
IsInvalidPartsLax(parts) == Len(parts) < 2

\* migrator.py 109: len(parts) != 2.
IsInvalidParts(parts) == Len(parts) # 2

\* A plausible slip: the underscores of the version are kept.
VersionWithUnderscores(version) == RemoveChar(version, "v")

\* migrator.py 112: version.replace("v", "").replace("_", ".").
FormatVersion(version) == ReplaceChar(RemoveChar(version, "v"), "_", ".")

\* migrator.py 113: description.replace("_", " ").
FormatDescription(description) == ReplaceChar(description, "_", " ")

\* migrator.py 112-122: the row added for a migration name without extension.
SchemaVersionRow(migration_name, now) ==
    LET parts == SplitDunder(migration_name)
    IN  [ file_name    |-> migration_name,
          version      |-> FormatVersion(parts[1]),
          description  |-> FormatDescription(parts[2]),
          date_applied |-> now,
          success      |-> 1 ]

(***************************************************************************)
(* Initial state: a fresh database and a DatabaseCLI just constructed      *)
(* (cli.py 31-39), no migration file written yet.                          *)
(***************************************************************************)
NoRun == [ dirs |-> <<>>, disk |-> {}, ended |-> FALSE ]

MigrateInit ==
    /\ disk = {}
    /\ extra_migration_paths = <<>>
    /\ schema_version = <<>>
    /\ executed = <<>>
    /\ pc = "idle"
    /\ migrations = <<>>
    /\ idx = 0
    /\ runs = 0
    /\ result = "none"
    /\ checks = 0
    /\ cur = [ dirs |-> <<>>, nrec |-> 0, nexec |-> 0,
               repeat |-> FALSE, lastRecorded |-> FALSE, failed |-> <<>> ]
    /\ prev = NoRun

\* The environment writes one more migration file between two runs.
WriteMigrationFile(f) ==
    /\ pc = "idle"
    /\ f \notin disk
    /\ Cardinality(disk) < MaxFiles
    /\ disk' = disk \cup {f}
    /\ UNCHANGED << extra_migration_paths, tables, schema_version, executed, pc,
                    migrations, idx, runs, result, checks, cur, prev >>
    /\ UNCHANGED << importVars, cliVars, dataVars, runVars >>

\* cli.py 50-57: DatabaseCLI.add_migration_path. The host registers its paths,
\* each once, before it dispatches the first command.
AddMigrationPath(path) ==
    /\ pc = "idle"
    /\ runs = 0
    /\ Len(extra_migration_paths) < MaxExtraPaths
    /\ \A i \in 1..Len(extra_migration_paths) : extra_migration_paths[i] # path
    /\ extra_migration_paths' = Append(extra_migration_paths, path)
    /\ UNCHANGED << disk, tables, schema_version, executed, pc,
                    migrations, idx, runs, result, checks, cur, prev >>
    /\ UNCHANGED << importVars, cliVars, dataVars, runVars >>

\* A plausible slip: only the migration table is created.
InitializeSchemaVersionOnly(existing) == existing \cup {SchemaVersionTable}

\* migrator.py 22-48: __initialize, CREATE TABLE IF NOT EXISTS for both tables.
Initialize(existing) == existing \cup {SchemaVersionTable, ImportDataVersionTable}

\* migrator.py 16-19 and 60-74: _execute_command runs __initialize, then
\* __migrate up to the check of the last migration.
MigrateStart(argDirs, ls) ==
    LET dirs   == extra_migration_paths \o argDirs
        sorted == SortMigrations(Flatten(dirs, ls, 1))
        last_migration_name == sorted[Len(sorted)]
        found  == [ dirs   |-> dirs,
                    nrec   |-> Len(schema_version),
                    nexec  |-> Len(executed),
                    repeat |-> prev.ended /\ prev.dirs = dirs /\ prev.disk = disk,
                    lastRecorded |->
                        /\ sorted # <<>>
                        /\ MigrationExists(RemoveExtension(Basename(last_migration_name))),
                    failed |-> <<>> ]
    IN  /\ pc = "idle"
        /\ runs < MaxRuns
        /\ runs' = runs + 1
        /\ tables' = Initialize(tables)
        /\ migrations' = sorted
        /\ cur' = found
        /\ IF sorted = <<>>
           THEN \* migrations[-1] on an empty list
                /\ result' = "IndexError"
                /\ pc' = "idle"
                /\ checks' = 0
                /\ idx' = 0
                /\ UNCHANGED prev
           ELSE IF MigrationExists(last_migration_name)
           THEN /\ result' = "skipped"
                /\ pc' = "idle"
                /\ checks' = 1
                /\ idx' = 0
                /\ prev' = [ dirs |-> dirs, disk |-> disk, ended |-> TRUE ]
           ELSE /\ result' = "running"
                /\ pc' = "loop"
                /\ checks' = 1
                /\ idx' = 1
                /\ UNCHANGED prev
        /\ UNCHANGED << disk, extra_migration_paths, schema_version, executed >>
        /\ UNCHANGED << importVars, cliVars, dataVars, runVars >>

\* A plausible slip: the error of a script is caught and the loop goes on.
ErrorSkipsFile == FALSE

\* migrator.py 76-89: no handler surrounds executescript, its error leaves
\* __migrate.
ErrorEndsRun == TRUE

\* The files whose script may raise when it is executed; the others run to
\* their end.
RaisingScripts == { PathJoin(D1, NameB) }

\* migrator.py 76-85: one iteration of the for loop up to executescript, which
\* runs the script to its end or raises, as the script and the database decide.
MigrateLoop ==
    /\ pc = "loop"
    /\ idx <= Len(migrations)
    /\ LET file_path == migrations[idx]
           file_name == Basename(file_path)
       IN  /\ checks' = checks + 1
           /\ IF MigrationExists(file_name)
              THEN /\ idx' = idx + 1
                   /\ UNCHANGED << executed, pc, result, cur >>
              ELSE \E raised \in { FALSE, (file_path \in RaisingScripts) } :
                     IF raised
                     THEN /\ cur' = [ cur EXCEPT !.failed = file_path ]
                          /\ IF ErrorEndsRun
                             THEN /\ result' = "ScriptError"
                                  /\ pc' = "idle"
                                  /\ UNCHANGED idx
                             ELSE /\ idx' = idx + 1
                                  /\ UNCHANGED << result, pc >>
                          /\ UNCHANGED executed
                     ELSE /\ executed' = Append(executed, [run |-> runs, path |-> file_path])
                          /\ pc' = "update"
                          /\ UNCHANGED << idx, result, cur >>
    /\ UNCHANGED << disk, extra_migration_paths, tables, schema_version,
                    migrations, runs, prev >>
    /\ UNCHANGED << importVars, cliVars, dataVars, runVars >>

\* migrator.py 87 and 100-122: __update_schema_version for the file just run.
UpdateSchemaVersion ==
    /\ pc = "update"
    /\ LET migration_name == RemoveExtension(Basename(migrations[idx]))
           parts == SplitDunder(migration_name)
       IN  IF IsInvalidParts(parts)
           THEN \* raise RuntimeError: the run ends
                /\ result' = "RuntimeError"
                /\ pc' = "idle"
                /\ UNCHANGED << schema_version, idx >>
           ELSE /\ schema_version' =
                       Append(schema_version, SchemaVersionRow(migration_name, runs))
                /\ pc' = "loop"
                /\ idx' = idx + 1
                /\ UNCHANGED result
    /\ UNCHANGED << disk, extra_migration_paths, tables, executed,
                    migrations, runs, checks, cur, prev >>
    /\ UNCHANGED << importVars, cliVars, dataVars, runVars >>

\* migrator.py 89: the loop is over.
MigrateFinish ==
    /\ pc = "loop"
    /\ idx > Len(migrations)
    /\ pc' = "idle"
    /\ result' = "completed"
    /\ prev' = [ dirs |-> cur.dirs, disk |-> disk, ended |-> TRUE ]
    /\ UNCHANGED << disk, extra_migration_paths, tables, schema_version, executed,
                    migrations, idx, runs, checks, cur >>
    /\ UNCHANGED << importVars, cliVars, dataVars, runVars >>

MigrateNext ==
    \/ \E f \in FileUniverse : WriteMigrationFile(f)
    \/ \E d \in Dirs : AddMigrationPath(d)
    \/ \E argDirs \in ArgDirChoices :
         \E ls \in Listings :
            MigrateStart(argDirs, ls)
    \/ MigrateLoop
    \/ UpdateSchemaVersion
    \/ MigrateFinish

(***************************************************************************)
(* ImportCommand: the data files and manifests explored.                   *)
(***************************************************************************)
\* os.path.sep.
OsSep == "/"

\* Path(args.definition_file).parent.
ManifestDir == <<"m">>

LineF == <<"f">>
LineG == <<"d", "/", "g">>

\* The data files a manifest may reference.
DataPaths == { PathJoin(ManifestDir, LineF), PathJoin(ManifestDir, LineG) }

\* metadata.type of the envelopes explored: content c holds EnvelopeTypes[c].
EnvelopeTypes == << Regular, <<"Bogus">>, <<"Custom">> >>

\* The contents a data file may be given: the envelopes above, and one more
\* that is a JSON object without "metadata".
Contents == 1..(Len(EnvelopeTypes) + 1)

HasMetadata(content) == content \in 1..Len(EnvelopeTypes)

\* The tags a strategy is asked for.
Tags == { EnvelopeTypes[c] : c \in 1..Len(EnvelopeTypes) }

\* The definition files explored, as read by read_file.
ManifestA == <<"#", "x", "\n", "f", "\n">>                    \* "#x\nf\n"
ManifestB == <<"f", "\n", " ", "d", "/", "g", "\n", "f">>      \* "f\n d/g\nf"
ManifestC == <<"#", "x", "\n", " ", "\n">>                    \* "#x\n \n"
ManifestChoices == { ManifestA, ManifestB, ManifestC }

\* A checksum column that holds no value.
NULL == <<>>

\* kutil.file.file_checksum: the hash of the file's content.
Checksum(content) == <<"sha", content>>

ImportInit ==
    /\ data_files = [p \in DataPaths |-> 0]
    /\ edits = 0
    /\ import_data_version = {}
    /\ ipc = "idle"
    /\ lines = <<>>
    /\ line_no = 0
    /\ files_to_import = <<>>
    /\ import_no = 0
    /\ import_runs = 0
    /\ import_result = "none"
    /\ scanned = <<>>
    /\ saves = <<>>
    /\ imports = <<>>
    /\ import_mode = "none"
    /\ import_args = [ definition_file |-> NoneArg ]
    /\ read_log = {}

\* The environment writes or rewrites a data file between two runs.
EditDataFile(path, content) ==
    /\ ipc = "idle"
    /\ edits < MaxEdits
    /\ data_files[path] # content
    /\ data_files' = [data_files EXCEPT ![path] = content]
    /\ edits' = edits + 1
    /\ UNCHANGED << import_data_version, ipc, lines, line_no, files_to_import,
                    import_no, import_runs, import_result, scanned, saves, imports,
                    import_mode, import_args, read_log >>
    /\ UNCHANGED << migrateVars, cliVars, dataVars, runVars >>

\* The content of a file, 0 if there is no such file.
FileContent(path) == IF path \in DOMAIN data_files THEN data_files[path] ELSE 0

\* importer.py 93-98: __invoke_importer_for_file reads the file and hands it to
\* the importer resolved from its metadata.type.
ImporterInvocation(run, file_path) ==
    [ run |-> run, path |-> file_path, content |-> FileContent(file_path),
      importer |-> GetImporter(EnvelopeTypes[FileContent(file_path)]) ]

\* importer.py 93-95: how __invoke_importer_for_file ends on a file:
\* read_file raises on a missing file, .get("type") on a missing "metadata".
InvocationError(file_path) ==
    IF FileContent(file_path) = 0 THEN "FileNotFoundError"
    ELSE IF ~HasMetadata(FileContent(file_path)) THEN "AttributeError"
    ELSE "none"

\* The definition file named in an invocation.
DefinitionPath == PathJoin(ManifestDir, <<"l">>)

\* cli.py 201-226: the namespace argparse builds for the import command.
ParseImportArgs(file_name, definition_file) ==
    [ command |-> "import", file_name |-> file_name,
      definition_file |-> definition_file ]

\* The namespace of a host program that designates the file as file_path.
HostImportArgs(file_path, definition_file) ==
    [ command |-> "import", file_path |-> file_path,
      definition_file |-> definition_file ]

\* The invocations of the import command explored.
ImportArgs ==
    { ParseImportArgs(f, d) :
        f \in { NoneArg, PathJoin(ManifestDir, LineF) },
        d \in { NoneArg, DefinitionPath } }
    \cup { HostImportArgs(p, d) : p \in DataPaths, d \in { NoneArg, DefinitionPath } }

\* A plausible slip: the designated file is never looked for.
HasFilePathNever(args) == FALSE

\* importer.py 39: hasattr(args, "file_path").
HasFilePath(args) == "file_path" \in DOMAIN args

\* importer.py 39-41: a file path is designated in the invocation.
ImportDirect(file_path) ==
    /\ ipc = "idle"
    /\ import_runs < MaxImportRuns
    /\ import_runs' = import_runs + 1
    /\ import_mode' = "direct"
    /\ read_log' = { [ op |-> "read_file", path |-> file_path ] }
    /\ IF InvocationError(file_path) # "none"
       THEN /\ import_result' = InvocationError(file_path)
            /\ UNCHANGED imports
       ELSE /\ import_result' = "completed"
            /\ imports' = Append(imports,
                                 ImporterInvocation(import_runs + 1, file_path))
    /\ UNCHANGED << data_files, edits, import_data_version, ipc, lines, line_no,
                    files_to_import, import_no, scanned, saves >>
    /\ UNCHANGED << migrateVars, cliVars, dataVars, runVars >>

\* importer.py 43-47: the definition file is read and split into lines.
ImportStart(definition_file) ==
    /\ ipc = "idle"
    /\ import_runs < MaxImportRuns
    /\ import_runs' = import_runs + 1
    /\ lines' = SplitChar(definition_file, "\n")
    /\ line_no' = 1
    /\ files_to_import' = <<>>
    /\ import_no' = 0
    /\ ipc' = "scan"
    /\ import_result' = "running"
    /\ import_mode' = "manifest"
    /\ read_log' = { [ op |-> "read_file", path |-> DefinitionPath ] }
    /\ UNCHANGED << data_files, edits, import_data_version, scanned, saves, imports >>
    /\ UNCHANGED << migrateVars, cliVars, dataVars, runVars >>

\* importer.py 43: Path(args.definition_file) when no definition file is given.
ImportWithoutDefinitionFile ==
    /\ ipc = "idle"
    /\ import_runs < MaxImportRuns
    /\ import_runs' = import_runs + 1
    /\ lines' = << >>
    /\ line_no' = 0
    /\ files_to_import' = << >>
    /\ import_no' = 0
    /\ import_result' = "TypeError"
    /\ import_mode' = "manifest"
    /\ read_log' = {}
    /\ UNCHANGED << data_files, edits, import_data_version, ipc, scanned, saves,
                    imports >>
    /\ UNCHANGED << migrateVars, cliVars, dataVars, runVars >>

\* importer.py 23-47: ImportCommand._execute_command up to the loop over the
\* lines.
ImportExecute(args) ==
    /\ import_args' = args
    /\ IF HasFilePath(args)
       THEN ImportDirect(args.file_path)
       ELSE IF args.definition_file = NoneArg
       THEN ImportWithoutDefinitionFile
       ELSE \E definition_file \in ManifestChoices : ImportStart(definition_file)

\* A plausible slip: only comments are skipped.
IsSkippedCommentOnly(line) == StartsWith(line, "#")

\* importer.py 54: line.startswith("#") or not line.
IsSkipped(line) == StartsWith(line, "#") \/ Len(line) = 0

\* A plausible slip: saving a record replaces the table.
SaveRecordAlone(rows, row) == { row }

\* metadata.save(): the record is inserted, or updated in place.
SaveRecord(rows, row) ==
    { r \in rows : r.file_name # row.file_name } \cup { row }

\* A plausible slip: the record is looked up under the joined path.
TrackingRowsByPath(file_name) ==
    { r \in import_data_version : r.file_name = PathJoin(ManifestDir, file_name) }

\* The rows db.table("import_data_version").where("file_name = ?", line) retrieves.
TrackingRows(file_name) == { r \in import_data_version : r.file_name = file_name }

\* A plausible slip: queueing every entry.
ChecksumChangedAlways(current_checksum, actual_checksum) == TRUE

\* A plausible slip: a record without a checksum is taken as up to date.
ChecksumChangedIfStored(current_checksum, actual_checksum) ==
    current_checksum # NULL /\ current_checksum # actual_checksum

\* importer.py 71: current_checksum != actual_checksum.
ChecksumChanged(current_checksum, actual_checksum) ==
    current_checksum # actual_checksum

\* A plausible slip: the queue grows at its head.
EnqueueFirst(queue, file_path) == << file_path >> \o queue

\* importer.py 73: files_to_import.append(file_path).
Enqueue(queue, file_path) == Append(queue, file_path)

\* importer.py 50-77: one iteration of the loop over the lines.
ScanLine ==
    /\ ipc = "scan"
    /\ line_no <= Len(lines)
    /\ LET line == ReplaceChar(Strip(lines[line_no]), "/", OsSep)
           file_path == PathJoin(ManifestDir, line)
           more == line_no < Len(lines)
           hashed == read_log \cup { [ op |-> "file_checksum", path |-> file_path ] }
       IN  IF IsSkipped(line)
           THEN /\ line_no' = line_no + 1
                /\ ipc' = IF more THEN "scan" ELSE "import"
                /\ import_no' = IF more THEN import_no ELSE 1
                /\ UNCHANGED << import_data_version, files_to_import,
                                import_result, scanned, saves, read_log >>
           ELSE IF FileContent(file_path) = 0
           THEN \* file_checksum raises
                /\ import_result' = "FileNotFoundError"
                /\ ipc' = "idle"
                /\ read_log' = hashed
                /\ UNCHANGED << import_data_version, line_no, files_to_import,
                                import_no, scanned, saves >>
           ELSE IF ImportDataVersionTable \notin tables
           THEN \* no such table
                /\ import_result' = "OperationalError"
                /\ ipc' = "idle"
                /\ read_log' = hashed
                /\ UNCHANGED << import_data_version, line_no, files_to_import,
                                import_no, scanned, saves >>
           ELSE LET actual_checksum == Checksum(FileContent(file_path))
                    is_empty == TrackingRows(line) = {}
                    added == [ file_name |-> line, checksum |-> NULL ]
                    metadata == IF is_empty THEN added
                                ELSE CHOOSE r \in TrackingRows(line) : TRUE
                    current_checksum == metadata.checksum
                    changed == ChecksumChanged(current_checksum, actual_checksum)
                    row == IF changed
                           THEN [ metadata EXCEPT !.checksum = actual_checksum ]
                           ELSE metadata
                    scan == Len(scanned) + 1
                IN  /\ import_data_version' = SaveRecord(import_data_version, row)
                    /\ read_log' = hashed
                    /\ files_to_import' =
                           IF changed THEN Enqueue(files_to_import, file_path)
                           ELSE files_to_import
                    /\ scanned' = Append(scanned,
                           [ run |-> import_runs, line_no |-> line_no,
                             file_name |-> line, created |-> is_empty,
                             stored |-> current_checksum, actual |-> actual_checksum ])
                    /\ saves' = saves
                           \o (IF is_empty
                               THEN << [run |-> import_runs, scan |-> scan, row |-> added] >>
                               ELSE << >>)
                           \o << [run |-> import_runs, scan |-> scan, row |-> row] >>
                    /\ line_no' = line_no + 1
                    /\ ipc' = IF more THEN "scan" ELSE "import"
                    /\ import_no' = IF more THEN import_no ELSE 1
                    /\ UNCHANGED import_result
    /\ UNCHANGED << data_files, edits, lines, import_runs, imports, import_mode,
                    import_args >>
    /\ UNCHANGED << migrateVars, cliVars, dataVars, runVars >>

\* importer.py 80-81: one iteration of the loop over the queued files.
InvokeImporter ==
    /\ ipc = "import"
    /\ import_no <= Len(files_to_import)
    /\ LET file_path == files_to_import[import_no]
       IN  IF InvocationError(file_path) # "none"
           THEN /\ import_result' = InvocationError(file_path)
                /\ ipc' = "idle"
                /\ UNCHANGED << imports, import_no >>
           ELSE /\ imports' = Append(imports,
                                     ImporterInvocation(import_runs, file_path))
                /\ import_no' = import_no + 1
                /\ UNCHANGED << ipc, import_result >>
    /\ read_log' = read_log \cup
           { [ op |-> "read_file", path |-> files_to_import[import_no] ] }
    /\ UNCHANGED << data_files, edits, import_data_version, lines, line_no,
                    files_to_import, import_runs, scanned, saves, import_mode,
                    import_args >>
    /\ UNCHANGED << migrateVars, cliVars, dataVars, runVars >>

\* importer.py 81: every queued file has been imported.
ImportFinish ==
    /\ ipc = "import"
    /\ import_no > Len(files_to_import)
    /\ ipc' = "idle"
    /\ import_result' = "completed"
    /\ UNCHANGED << data_files, edits, import_data_version, lines, line_no,
                    files_to_import, import_no, import_runs, scanned, saves, imports,
                    import_mode, import_args, read_log >>
    /\ UNCHANGED << migrateVars, cliVars, dataVars, runVars >>

ImportNext ==
    \/ \E p \in DataPaths : \E c \in Contents : EditDataFile(p, c)
    \/ \E args \in ImportArgs : ImportExecute(args)
    \/ ScanLine
    \/ InvokeImporter
    \/ ImportFinish

(***************************************************************************)
(* RegularImporter.do_import and RegularExtractor.do_extract on one table. *)
(* Column values are strings; a row gives every column a value or NULL, a  *)
(* record (a JSON object) gives values to some keys. The table object of   *)
(* the database layer is taken to work as its calls are named: where()     *)
(* scopes it, retrieve() loads the rows in scope, remove_all() marks the   *)
(* loaded rows, add() queues a row, save() commits marks and queued rows.  *)
(***************************************************************************)
MaxTableRuns == 2

TableName == <<"t">>

Columns == { "id", "is_active", "value" }

\* The value a column takes when an insert does not assign it.
ColumnDefault == [ id |-> NULL, is_active |-> <<"1">>, value |-> <<"d">> ]

RowA == [ id |-> <<"1">>, is_active |-> <<"0">>, value |-> NULL ]
RowB == [ id |-> <<"2">>, is_active |-> <<"1">>, value |-> <<"x">> ]

\* The tables a run may start from.
TableChoices == { << >>, << RowA, RowB >>, << RowB, RowA, RowA >> }

\* A filter is a column and the value it must have; no filter is falsy.
NoFilter == << >>
FilterInactive == << "is_active", "0" >>
Filters == { NoFilter, FilterInactive }

\* The records an envelope may carry: one omits "value", one gives it null.
RecordC == [ id |-> <<"3">>, is_active |-> <<"0">> ]
RecordD == [ id |-> <<"4">>, is_active |-> <<"1">>, value |-> NULL ]
DataChoices == { << >>, << RecordC >>, << RecordC, RecordD >>, << RecordD, RecordC, RecordC >> }

\* The rows a filter scopes.
Matches(filter, row) == row[filter[1]] = << filter[2] >>

\* A plausible slip: the filter is not applied.
RetrieveEverything(rows, filter) == 1..Len(rows)

\* where(filter) if a filter is given, then retrieve(): the positions loaded.
Retrieve(rows, filter) ==
    IF filter # NoFilter
    THEN { i \in 1..Len(rows) : Matches(filter, rows[i]) }
    ELSE 1..Len(rows)

RECURSIVE KeepFrom(_, _, _)
KeepFrom(rows, removed, i) ==
    IF i > Len(rows) THEN << >>
    ELSE (IF i \in removed THEN << >> ELSE << rows[i] >>)
         \o KeepFrom(rows, removed, i + 1)

\* save(): the persisted rows after the marked rows are deleted and the queued
\* rows inserted, and the table object afterwards.
SaveTable(rows, t) ==
    [ rows  |-> KeepFrom(rows, t.removed, 1) \o t.added,
      table |-> [ t EXCEPT !.loaded = {}, !.removed = {}, !.added = << >> ] ]

\* A plausible slip: one commit instead of two.
SaveDeletionLater(rows, t) == [ rows |-> rows, table |-> t ]

\* importer.py 173: the save() that follows remove_all().
SaveDeletion(rows, t) == SaveTable(rows, t)

\* A plausible slip: every column is passed, the missing ones as null.
AddArgsAllColumns(record) ==
    [ c \in Columns |-> IF c \in DOMAIN record THEN record[c] ELSE NULL ]

\* importer.py 176: the keyword arguments of add(**record).
AddArgs(record) == record

\* A plausible slip: a column the insert is not given is set to null.
NewRowNullDefaults(kwargs) ==
    [ c \in Columns |-> IF c \in DOMAIN kwargs THEN kwargs[c] ELSE NULL ]

\* add(**kwargs): the row queued for insertion.
NewRow(kwargs) ==
    [ c \in Columns |-> IF c \in DOMAIN kwargs THEN kwargs[c] ELSE ColumnDefault[c] ]

\* importer.py 180-192: _format_data.
FormatData(data, metadata) == data

\* importer.py 112-116: _format_data as a subclass of RegularImporter overrides
\* it; the one explored marks every record as processed.
CustomFormatData(data, metadata) ==
    [ i \in 1..Len(data) |->
        [ c \in DOMAIN data[i] \cup {"value"} |->
            IF c = "value" THEN <<"p">> ELSE data[i][c] ] ]

\* importer.py 155: self._format_data(data, metadata, context).
FormatDataOf(self, data, metadata) ==
    IF self = CustomImporter THEN CustomFormatData(data, metadata)
    ELSE FormatData(data, metadata)

\* A plausible slip: the records read from the file are inserted.
RecordsToAddRaw(raw, formatted) == raw

\* importer.py 155 and 175: data is rebound to what the hook returned, and the
\* loop runs over it.
RecordsToAdd(raw, formatted) == formatted

\* row.to_json(include_nulls).
ToJson(row, include_nulls) ==
    [ c \in { k \in DOMAIN row : include_nulls \/ row[k] # NULL } |-> row[c] ]

\* A plausible slip: nulls are kept.
ExtractRecordWithNulls(row) == ToJson(row, TRUE)

\* extractor.py 102: row.to_json(include_nulls=False).
ExtractRecord(row) == ToJson(row, FALSE)

\* extractor.py 120-135: _post_extract.
PostExtract(data) == data

\* extractor.py 53-64: _post_extract as a subclass of RegularExtractor
\* overrides it; the one explored drops the id of every record.
CustomPostExtract(data) ==
    [ i \in 1..Len(data) |-> [ c \in DOMAIN data[i] \ {"id"} |-> data[i][c] ] ]

\* extractor.py 112: self._post_extract(table_data, context).
PostExtractOf(self, data) ==
    IF self = CustomExtractor THEN CustomPostExtract(data) ELSE PostExtract(data)

\* A plausible slip: the retrieved records are written, not the hook's.
ExtractedDataRaw(table_data, post_extracted) == table_data

\* extractor.py 112: "data" of the envelope is what the hook returned.
ExtractedData(table_data, post_extracted) == post_extracted

NoTable == [ filter |-> NoFilter, loaded |-> {}, removed |-> {}, added |-> << >> ]
NoFile == [ metadata |-> [ table_name |-> TableName ], data |-> << >> ]

DataInit ==
    /\ import_table = NoTable
    /\ dpc = "idle"
    /\ import_file = NoFile
    /\ add_no = 0
    /\ table_runs = 0
    /\ table_result = "none"
    /\ rows_before = << >>
    /\ table_saves = << >>
    /\ add_calls = << >>
    /\ extract_rows = << >>
    /\ extract_file = NoFile
    /\ call = [ op |-> "none", self |-> None, file_path |-> NoneArg,
                filter |-> NoFilter, again |-> FALSE, exported |-> FALSE ]
    /\ import_data = << >>
    /\ hook_calls = << >>

\* metadata.get("filter") of an envelope.
FilterOf(file) ==
    IF "filter" \in DOMAIN file.metadata THEN file.metadata.filter ELSE NoFilter

\* A plausible slip: the filter key is written whether or not a filter is given.
EnvelopeWithFilterKey(type, filter, data) ==
    [ metadata |-> [ table_name |-> TableName, type |-> type, filter |-> filter ],
      data |-> data ]

\* An envelope for the table, with the filter key only if a filter is given.
Envelope(type, filter, data) ==
    [ metadata |-> IF filter # NoFilter
                   THEN [ table_name |-> TableName, type |-> type, filter |-> filter ]
                   ELSE [ table_name |-> TableName, type |-> type ],
      data |-> data ]

\* importer.py 142-169: do_import up to retrieve(), on the importer self.
DoImportRetrieve(self, file_path, file) ==
    /\ dpc = "idle"
    /\ table_runs < MaxTableRuns
    /\ table_runs' = table_runs + 1
    /\ call' = [ op |-> "do_import", self |-> self, file_path |-> file_path,
                 filter |-> NoFilter,
                 again |-> /\ ~IsNone(file_path)
                           /\ table_result = "completed"
                           /\ call.self = self
                           /\ import_file = file,
                 exported |-> /\ ~IsNone(file_path)
                              /\ table_result = "extracted"
                              /\ extract_file = file ]
    /\ IF IsNone(file_path)
       THEN \* sys.exit(1)
            /\ table_result' = "exit"
            /\ hook_calls' = << >>
            /\ UNCHANGED << import_table, dpc, import_file, add_no, rows_before,
                            table_saves, add_calls, import_data >>
       ELSE /\ import_file' = file
            /\ LET formatted == FormatDataOf(self, file.data, file.metadata)
               IN  /\ import_data' = RecordsToAdd(file.data, formatted)
                   /\ hook_calls' = << [ hook |-> "_format_data",
                                         data |-> file.data,
                                         metadata |-> file.metadata,
                                         rows |-> db_rows,
                                         returned |-> formatted ] >>
            /\ import_table' = [ NoTable EXCEPT
                                   !.filter = FilterOf(file),
                                   !.loaded = Retrieve(db_rows, FilterOf(file)) ]
            /\ dpc' = "retrieved"
            /\ add_no' = 0
            /\ rows_before' = db_rows
            /\ table_saves' = << >>
            /\ add_calls' = << >>
            /\ table_result' = "running"
    /\ UNCHANGED << db_rows, extract_rows, extract_file >>
    /\ UNCHANGED << migrateVars, importVars, cliVars, runVars >>

\* importer.py 172-173: remove_all() and the first save().
DoImportRemoveAll ==
    /\ dpc = "retrieved"
    /\ LET marked == [ import_table EXCEPT !.removed = import_table.loaded ]
           saved == SaveDeletion(db_rows, marked)
       IN  /\ db_rows' = saved.rows
           /\ import_table' = saved.table
           /\ table_saves' = Append(table_saves, saved.rows)
    /\ dpc' = "adding"
    /\ add_no' = 1
    /\ UNCHANGED << import_file, table_runs, table_result, rows_before, add_calls,
                    extract_rows, extract_file >>
    /\ UNCHANGED << call, import_data, hook_calls >>
    /\ UNCHANGED << migrateVars, importVars, cliVars, runVars >>

\* importer.py 175-176: one iteration of the loop over the records.
DoImportAdd ==
    /\ dpc = "adding"
    /\ add_no <= Len(import_data)
    /\ import_table' = [ import_table EXCEPT
            !.added = Append(@, NewRow(AddArgs(import_data[add_no]))) ]
    /\ add_calls' = Append(add_calls, AddArgs(import_data[add_no]))
    /\ add_no' = add_no + 1
    /\ UNCHANGED << db_rows, dpc, import_file, table_runs, table_result, rows_before,
                    table_saves, extract_rows, extract_file >>
    /\ UNCHANGED << call, import_data, hook_calls >>
    /\ UNCHANGED << migrateVars, importVars, cliVars, runVars >>

\* importer.py 178: the second save().
DoImportSave ==
    /\ dpc = "adding"
    /\ add_no > Len(import_data)
    /\ LET saved == SaveTable(db_rows, import_table)
       IN  /\ db_rows' = saved.rows
           /\ import_table' = saved.table
           /\ table_saves' = Append(table_saves, saved.rows)
    /\ dpc' = "idle"
    /\ table_result' = "completed"
    /\ UNCHANGED << import_file, add_no, table_runs, rows_before, add_calls,
                    extract_rows, extract_file >>
    /\ UNCHANGED << call, import_data, hook_calls >>
    /\ UNCHANGED << migrateVars, importVars, cliVars, runVars >>

\* The process is interrupted inside do_import.
Interrupt ==
    /\ dpc # "idle"
    /\ dpc' = "idle"
    /\ table_result' = "interrupted"
    /\ UNCHANGED << db_rows, import_table, import_file, add_no, table_runs,
                    rows_before, table_saves, add_calls, extract_rows, extract_file >>
    /\ UNCHANGED << call, import_data, hook_calls >>
    /\ UNCHANGED << migrateVars, importVars, cliVars, runVars >>

\* extractor.py 22-32 and 74-118: the extract command with the strategy its
\* type resolves to.
DoExtract(type, filter) ==
    /\ dpc = "idle"
    /\ table_runs < MaxTableRuns
    /\ GetExtractor(type) \in { RegularExtractor, CustomExtractor }
    /\ table_runs' = table_runs + 1
    /\ call' = [ op |-> "do_extract", self |-> GetExtractor(type),
                 file_path |-> NoneArg, filter |-> filter,
                 again |-> FALSE, exported |-> FALSE ]
    /\ LET loaded == Retrieve(db_rows, filter)
           rows == KeepFrom(db_rows, (1..Len(db_rows)) \ loaded, 1)
           table_data == [ i \in 1..Len(rows) |-> ExtractRecord(rows[i]) ]
           post_extracted == PostExtractOf(GetExtractor(type), table_data)
       IN  /\ extract_rows' = rows
           /\ extract_file' =
                  Envelope(type, filter, ExtractedData(table_data, post_extracted))
           /\ hook_calls' = << [ hook |-> "_post_extract",
                                 data |-> table_data,
                                 returned |-> post_extracted ] >>
    /\ table_result' = "extracted"
    /\ UNCHANGED << db_rows, import_table, dpc, import_file, add_no, rows_before,
                    table_saves, add_calls, import_data >>
    /\ UNCHANGED << migrateVars, importVars, cliVars, runVars >>

\* The file do_import is pointed at.
ImportPath == << "t", ".", "j" >>

\* The envelopes handed to do_import: written by hand, or the last one extracted.
ImportFiles ==
    { Envelope(Regular, f, d) : f \in Filters, d \in DataChoices }
        \cup { extract_file }

TableNext ==
    \/ \E self \in { RegularImporter, CustomImporter } :
          \E file_path \in { NoneArg, ImportPath } :
             \E file \in ImportFiles : DoImportRetrieve(self, file_path, file)
    \/ DoImportRemoveAll
    \/ DoImportAdd
    \/ DoImportSave
    \/ Interrupt
    \/ \E type \in Tags : \E filter \in Filters : DoExtract(type, filter)

(***************************************************************************)
(* DatabaseCLI.run and CLICommand.execute: how a command is dispatched and *)
(* how its end is handled. What the command's logic does is an input: it   *)
(* returns, raises an Exception, or calls sys.exit(1).                     *)
(***************************************************************************)
MaxCalls == 2

\* The environment variables of the process.
Environ == [ n \in { <<"e">> } |-> << "/", "r" >> ]

\* The characters of a variable name.
NameChars ==
    { Alphabet[i] : i \in 1..Len(Alphabet) } \ { "\n", " ", "#", ".", "/", "\\" }

\* The end of the run of name characters that starts at position i.
RECURSIVE NameEnd(_, _)
NameEnd(path, i) ==
    IF i <= Len(path) /\ path[i] \in NameChars THEN NameEnd(path, i + 1) ELSE i - 1

\* A plausible slip: the path is used as given.
NoExpandVars(path) == path

RECURSIVE ExpandFrom(_, _)
ExpandFrom(path, i) ==
    IF i > Len(path) THEN << >>
    ELSE IF path[i] = "$" /\ SubSeq(path, i + 1, NameEnd(path, i + 1)) \in DOMAIN Environ
    THEN Environ[SubSeq(path, i + 1, NameEnd(path, i + 1))]
         \o ExpandFrom(path, NameEnd(path, i + 1) + 1)
    ELSE << path[i] >> \o ExpandFrom(path, i + 1)

\* command.py 68: os.path.expandvars, for the $name form; a variable that is
\* not set is left as written.
ExpandVars(path) == ExpandFrom(path, 1)

DbPlain == << "d", "b" >>
DbHome  == << "$", "e", "/", "d", "b" >>
DbUnset == << "$", "x", "/", "d", "b" >>
Databases == { DbPlain, DbHome, DbUnset }

Commands == { "migrate", "import", "extract" }

\* What the logic of a command does.
Outcomes == { "returned", "raised", "exited" }

\* The command lines explored: none, or a command with or without --database.
NoArgv == [ command |-> "none", database |-> NoneArg ]
Argvs ==
    { NoArgv } \cup
    { [ command |-> c, database |-> d ] : c \in Commands, d \in Databases \cup { NoneArg } }

\* cli.py 159: the message printed on stderr.
CriticalError == "Critical Error during execution"

NoManager == NoneArg

RunInit ==
    /\ run_pc = "idle"
    /\ run_call = [ via_run |-> FALSE, args |-> NoArgv, manager |-> NoManager,
                    calls |-> 0 ]
    /\ run_log = << >>

\* A call that ended: how, with which exit code, and what it printed on stderr.
Ended(via_run, args, manager, calls, how, code, stderr) ==
    [ via_run |-> via_run, args |-> args, manager |-> manager, calls |-> calls,
      how |-> how, code |-> code, stderr |-> stderr ]

\* command.py 61-70: execute up to the call of _execute_command.
Execute(via_run, args) ==
    IF IsNone(args.database)
    THEN \* sys.exit(1)
         /\ run_log' = Append(run_log,
                Ended(via_run, args, NoManager, 0, "exit", 1, << >>))
         /\ UNCHANGED << run_pc, run_call >>
    ELSE /\ run_call' = [ via_run |-> via_run, args |-> args,
                          manager |-> ExpandVars(args.database), calls |-> 0 ]
         /\ run_pc' = "command"
         /\ UNCHANGED run_log

\* cli.py 123-156: run parses the command line and calls the command's execute.
RunDispatch(argv) ==
    /\ run_pc = "idle"
    /\ Len(run_log) < MaxCalls
    /\ IF argv = NoArgv
       THEN \* print_help, sys.exit(1)
            /\ run_log' = Append(run_log,
                   Ended(TRUE, argv, NoManager, 0, "exit", 1, << "usage" >>))
            /\ UNCHANGED << run_pc, run_call >>
       ELSE IF argv.database = NoneArg
       THEN \* --database is required: parse_args exits with 2
            /\ run_log' = Append(run_log,
                   Ended(TRUE, argv, NoManager, 0, "exit", 2, << "usage" >>))
            /\ UNCHANGED << run_pc, run_call >>
       ELSE Execute(TRUE, argv)
    /\ UNCHANGED << migrateVars, importVars, cliVars, dataVars >>

\* command.py 49-71: execute called by a host program with its own args.
ExecuteCall(args) ==
    /\ run_pc = "idle"
    /\ Len(run_log) < MaxCalls
    /\ Execute(FALSE, args)
    /\ UNCHANGED << migrateVars, importVars, cliVars, dataVars >>

\* A plausible slip: an exception ends the process silently with code 0.
RunHandlesSilently(outcome) ==
    [ how |-> "exit", code |-> IF outcome = "exited" THEN 1 ELSE 0, stderr |-> << >> ]

\* cli.py 155-160: sys.exit(exit_code) with the None that execute returns, the
\* except clause for an Exception, and a SystemExit that passes through it.
RunHandles(outcome) ==
    IF outcome = "returned" THEN [ how |-> "exit", code |-> 0, stderr |-> << >> ]
    ELSE IF outcome = "raised"
    THEN [ how |-> "exit", code |-> 1, stderr |-> << CriticalError >> ]
    ELSE [ how |-> "exit", code |-> 1, stderr |-> << >> ]

\* What the caller of execute sees when there is no run around it.
CallerSees(outcome) ==
    IF outcome = "returned" THEN [ how |-> "returned", code |-> 0, stderr |-> << >> ]
    ELSE IF outcome = "raised" THEN [ how |-> "raised", code |-> 0, stderr |-> << >> ]
    ELSE [ how |-> "exit", code |-> 1, stderr |-> << >> ]

\* command.py 71: _execute_command runs and ends; cli.py 155-160 handles it.
CommandLogic(outcome) ==
    /\ run_pc = "command"
    /\ LET end == IF run_call.via_run THEN RunHandles(outcome) ELSE CallerSees(outcome)
       IN  run_log' = Append(run_log,
               Ended(run_call.via_run, run_call.args, run_call.manager,
                     run_call.calls + 1, end.how, end.code, end.stderr)
                   @@ [ outcome |-> outcome ])
    /\ run_pc' = "idle"
    /\ UNCHANGED run_call
    /\ UNCHANGED << migrateVars, importVars, cliVars, dataVars >>

RunNext ==
    \/ \E argv \in Argvs : RunDispatch(argv)
    \/ \E args \in Argvs \ { NoArgv } : ExecuteCall(args)
    \/ \E outcome \in Outcomes : CommandLogic(outcome)

(***************************************************************************)
(* Specifications.                                                         *)
(***************************************************************************)
\* Migrate runs on a fresh database.
Init ==
    /\ MigrateInit
    /\ tables = {}
    /\ ImportInit
    /\ PostInit
    /\ db_rows = << >>
    /\ DataInit
    /\ RunInit

Next == MigrateNext

Spec == Init /\ [][Next]_vars

\* Import runs, on a database that migrate has or has not initialized.
InitImport ==
    /\ MigrateInit
    /\ tables \in { {}, {SchemaVersionTable, ImportDataVersionTable} }
    /\ ImportInit
    /\ RegistryInit
    /\ db_rows = << >>
    /\ DataInit
    /\ RunInit

SpecImport == InitImport /\ [][ImportNext]_vars

\* do_import and do_extract on a table of a migrated database, the strategies
\* of a plugin registered.
InitTable ==
    /\ MigrateInit
    /\ tables = { SchemaVersionTable, ImportDataVersionTable }
    /\ ImportInit
    /\ WithPlugin
    /\ db_rows \in TableChoices
    /\ DataInit
    /\ RunInit

SpecTable == InitTable /\ [][TableNext]_vars

\* Commands dispatched by run, or executed by a host program.
SpecRun == Init /\ [][RunNext]_vars

\* A host registers strategies after post_init.
SpecRegistry == Init /\ [][RegistryNext]_vars



(***************************************************************************)
(* Properties of the migration runner.                                     *)
(***************************************************************************)
\* Number of "__"-delimited parts of the name under which a path is recorded.
PartsOfPath(path) == Len(SplitDunder(RemoveExtension(Basename(path))))

\* C1: running migrate again with the same directories and unchanged files,
\* after a run that ended normally, executes no script and adds no
\* schema_version row.
C1_MigrateTwiceIsIdempotent ==
    cur.repeat =>
        /\ Len(executed) = cur.nexec
        /\ Len(schema_version) = cur.nrec

\* C2: over all migrate runs, the script of a migration (identified by its base
\* file name) is executed at most once.
C2_ScriptExecutedAtMostOnce ==
    \A i, j \in 1..Len(executed) :
        i < j => Basename(executed[i].path) # Basename(executed[j].path)

\* C3: schema_version never holds two records with the same file_name.
C3_OneRecordPerFileName ==
    \A i, j \in 1..Len(schema_version) :
        i < j => schema_version[i].file_name # schema_version[j].file_name

\* C4: the scripts executed within one migrate run are executed in ascending
\* order of base file name (Python str order), whichever directory contributed
\* them and in whatever order the directories were listed.
C4_ExecutedInBasenameOrder ==
    \A i, j \in 1..Len(executed) :
        (i < j /\ executed[i].run = executed[j].run) =>
            StrLeq(Basename(executed[i].path), Basename(executed[j].path))

\* C4 happens: a later-listed directory (passed at invocation) contributed the
\* earlier name, an add_migration_path directory listed first the later one.
C4_Witness ==
    /\ extra_migration_paths = <<D1>>
    /\ cur.dirs = <<D1, D2>>
    /\ \E i, j \in 1..Len(executed) :
        /\ i < j
        /\ executed[i] = [run |-> runs, path |-> PathJoin(D2, NameA)]
        /\ executed[j] = [run |-> runs, path |-> PathJoin(D1, NameB)]

\* C5: a run that starts when the sort-last file is already recorded as applied
\* makes a single applied-check, executes no script and writes no record (so a
\* file that sorts earlier and is not recorded is not executed by it).
C5_FastPathWhenLastRecorded ==
    cur.lastRecorded =>
        /\ checks <= 1
        /\ Len(executed) = cur.nexec
        /\ Len(schema_version) = cur.nrec

\* C6, first half: after a run that went through the loop and completed, every
\* file of the flattened set has a record under its base name without extension.
C6_EveryFileRecorded ==
    (pc = "idle" /\ result = "completed") =>
        \A i \in 1..Len(migrations) :
            MigrationExists(RemoveExtension(Basename(migrations[i])))

\* C6, second half: a record is written only after the script of its file has
\* been executed, in the same run.
C6_RecordedAfterExecuted ==
    \A r \in 1..Len(schema_version) :
        \E e \in 1..Len(executed) :
            /\ executed[e].run = schema_version[r].date_applied
            /\ RemoveExtension(Basename(executed[e].path)) = schema_version[r].file_name

\* C6: a completed run that did not take the fast path leaves a record for every
\* file of the flattened set, each written after the file's script was executed.
C6_CompletedRunRecordsEveryFile ==
    C6_EveryFileRecorded /\ C6_RecordedAfterExecuted

\* C7: a file whose name without extension does not split into exactly two
\* parts on "__" makes the run fail with RuntimeError as soon as it is applied,
\* and no schema_version row is ever written under such a name.
C7_InvalidNameFailsAndIsNeverRecorded ==
    /\ \A r \in 1..Len(schema_version) :
            Len(SplitDunder(schema_version[r].file_name)) = 2
    /\ \A e \in 1..Len(executed) :
            (executed[e].run = runs /\ PartsOfPath(executed[e].path) # 2) =>
                \/ pc = "update" /\ e = Len(executed)
                                 /\ migrations[idx] = executed[e].path
                \/ pc = "idle" /\ result = "RuntimeError"

\* C7 happens: runs failed on a name with no "__" and on a name with two.
C7_Witness ==
    /\ pc = "idle"
    /\ result = "RuntimeError"
    /\ Basename(migrations[idx]) = NameTwo
    /\ ~MigrationExists(RemoveExtension(NameTwo))
    /\ \E e \in 1..Len(executed) :
         /\ executed[e].run < runs
         /\ Basename(executed[e].path) = NameBad
    /\ ~MigrationExists(RemoveExtension(NameBad))

\* C8: a file whose name does not hold exactly one "__" makes migrate fail
\* before its script is executed: no script of such a file is ever executed.
C8_InvalidNameFailsBeforeScriptRuns ==
    \A e \in 1..Len(executed) : PartsOfPath(executed[e].path) = 2

\* C9: a run whose directories list no file ends normally ("no migrations to
\* run"), without error, script execution or record.
C9_EmptyListingEndsNormally ==
    (pc = "idle" /\ runs > 0 /\ migrations = <<>>) =>
        /\ result \in {"completed", "skipped"}
        /\ Len(executed) = cur.nexec
        /\ Len(schema_version) = cur.nrec

(***************************************************************************)
(* Properties of the manifest import.                                      *)
(***************************************************************************)
\* Importer invocations of the current run for a data file.
InvocationsFor(path) ==
    { i \in 1..Len(imports) : imports[i].run = import_runs /\ imports[i].path = path }

\* Entries of the current run that name a data file and were found changed.
ChangedEntriesFor(path) ==
    { k \in 1..Len(scanned) :
        /\ scanned[k].run = import_runs
        /\ PathJoin(ManifestDir, scanned[k].file_name) = path
        /\ scanned[k].stored # scanned[k].actual }

\* C10: in manifest mode an entry whose stored checksum equals the computed one
\* causes no importer invocation in that run (a file is invoked at most once
\* per entry found changed), leaves the stored checksum as it was, and its
\* tracking record is saved all the same.
C10_UnchangedEntrySkippedAndSaved ==
    /\ \A k \in 1..Len(scanned) :
         scanned[k].stored = scanned[k].actual =>
            /\ \E s \in 1..Len(saves) :
                 /\ saves[s].scan = k
                 /\ saves[s].row = [ file_name |-> scanned[k].file_name,
                                     checksum  |-> scanned[k].stored ]
            /\ \A s \in 1..Len(saves) :
                 saves[s].scan = k => saves[s].row.checksum = scanned[k].stored
            /\ scanned[k].run = import_runs =>
                 \A r \in TrackingRows(scanned[k].file_name) :
                    r.checksum = scanned[k].stored
    /\ ipc # "idle" =>
         \A p \in DataPaths :
            Cardinality(InvocationsFor(p)) <= Cardinality(ChangedEntriesFor(p))

\* C10 happens: a manifest run completed in which an entry was found unchanged
\* and its file was not handed to any importer.
C10_Witness ==
    /\ ipc = "idle"
    /\ import_result = "completed"
    /\ \E k \in 1..Len(scanned) :
         /\ scanned[k].run = import_runs
         /\ scanned[k].stored = scanned[k].actual
         /\ InvocationsFor(PathJoin(ManifestDir, scanned[k].file_name)) = {}
         /\ \E s \in 1..Len(saves) : saves[s].scan = k

\* The scanned entries of the current run, and those of them found changed.
ScannedNow == { k \in 1..Len(scanned) : scanned[k].run = import_runs }
ChangedNow == { k \in ScannedNow : scanned[k].stored # scanned[k].actual }

\* The data file a scanned entry names.
PathOf(k) == PathJoin(ManifestDir, scanned[k].file_name)

\* A manifest run has ended, normally or with an error.
ManifestRunEnded == import_mode = "manifest" /\ ipc = "idle"

\* C11: in manifest mode an entry whose stored checksum differs from the
\* computed one causes exactly one importer invocation for its file in that
\* run, and after the run the stored checksum equals the computed one.
C11_ChangedEntryImportedOnce ==
    ManifestRunEnded =>
        \A k \in ChangedNow :
            /\ Cardinality(InvocationsFor(PathOf(k))) = 1
            /\ TrackingRows(scanned[k].file_name) =
                   { [ file_name |-> scanned[k].file_name,
                       checksum  |-> scanned[k].actual ] }

\* C12: a manifest entry without an import_data_version record is treated as
\* changed: the scan creates the record under the entry's path, stores the
\* computed checksum in it and queues the file for import.
C12_UntrackedEntryCreatedAndQueued ==
    \A k \in 1..Len(scanned) :
        scanned[k].created =>
            /\ scanned[k].stored # scanned[k].actual
            /\ \E s \in 1..Len(saves) :
                  /\ saves[s].scan = k
                  /\ saves[s].row = [ file_name |-> scanned[k].file_name,
                                      checksum  |-> NULL ]
            /\ \E s \in 1..Len(saves) :
                  /\ saves[s].scan = k
                  /\ saves[s].row = [ file_name |-> scanned[k].file_name,
                                      checksum  |-> scanned[k].actual ]
            /\ k \in ScannedNow =>
                  /\ \E q \in 1..Len(files_to_import) :
                        files_to_import[q] = PathOf(k)
                  /\ TrackingRows(scanned[k].file_name) =
                        { [ file_name |-> scanned[k].file_name,
                            checksum  |-> scanned[k].actual ] }

\* C12 happens: a manifest run completed that met an entry without a record,
\* and its file was handed to an importer.
C12_Witness ==
    /\ ManifestRunEnded
    /\ import_result = "completed"
    /\ \E k \in ScannedNow :
          /\ scanned[k].created
          /\ InvocationsFor(PathOf(k)) # {}

\* The entry at which the scan of the current run stands.
ReachedLine == ReplaceChar(Strip(lines[line_no]), "/", OsSep)

\* C13: every manifest entry a manifest run reaches has an import_data_version
\* record afterwards, also when the run stops on that entry because the file
\* it references does not exist.
C13_ReachedEntryHasRecord ==
    /\ \A k \in ScannedNow : TrackingRows(scanned[k].file_name) # {}
    /\ ( /\ ManifestRunEnded
         /\ import_result = "FileNotFoundError"
         /\ line_no <= Len(lines) )
       => TrackingRows(ReachedLine) # {}

\* The manifest line of the entry of the current run found changed for a path.
LineOf(path) ==
    LET ks == { k \in ChangedNow : PathOf(k) = path }
    IN  scanned[CHOOSE k \in ks : \A o \in ks : k <= o].line_no

\* The lines of the current manifest that name an entry.
EntryLines ==
    { n \in 1..Len(lines) :
        LET line == ReplaceChar(Strip(lines[n]), "/", OsSep)
        IN  ~(StartsWith(line, "#") \/ Len(line) = 0) }

\* The invocations of the current run, in the order they were made.
InvocationsNow == SelectSeq(imports, LAMBDA i : i.run = import_runs)

\* C14: in manifest mode no importer is invoked before every manifest line
\* has been scanned and its tracking record saved; the queued files are then
\* imported one at a time, in the order of their lines in the manifest.
C14_ScanThenImportInManifestOrder ==
    import_mode = "manifest" =>
        /\ ipc = "scan" => InvocationsNow = <<>>
        /\ InvocationsNow # <<>> =>
              /\ line_no > Len(lines)
              /\ \A n \in EntryLines :
                    \E k \in ScannedNow :
                        /\ scanned[k].line_no = n
                        /\ \E s \in 1..Len(saves) : saves[s].scan = k
        /\ \A i \in 1..Len(InvocationsNow) :
              /\ Cardinality(InvocationsFor(InvocationsNow[i].path)) = 1
              /\ \E k \in ChangedNow : PathOf(k) = InvocationsNow[i].path
        /\ \A i, j \in 1..Len(InvocationsNow) :
              i < j => LineOf(InvocationsNow[i].path) < LineOf(InvocationsNow[j].path)
        /\ (ipc = "idle" /\ import_result = "completed") =>
              \A k \in ChangedNow : InvocationsFor(PathOf(k)) # {}

\* C14 happens: a manifest run found two files changed and imported both.
C14_Witness ==
    /\ ManifestRunEnded
    /\ import_result = "completed"
    /\ Len(InvocationsNow) = 2
    /\ InvocationsNow[1].path # InvocationsNow[2].path

\* The manifest line at which the current run failed: the line being scanned,
\* or the line of the queued file being imported.
FailedLine ==
    IF line_no <= Len(lines) THEN line_no
    ELSE LineOf(files_to_import[import_no])

\* C15: when a manifest run fails at some manifest entry, every changed entry
\* that precedes it in the manifest has already been imported.
C15_FailureLeavesEarlierImported ==
    ( /\ ManifestRunEnded
      /\ import_result \in { "FileNotFoundError", "OperationalError",
                              "AttributeError" } )
    => \A k \in ChangedNow :
          scanned[k].line_no < FailedLine => InvocationsFor(PathOf(k)) # {}

(***************************************************************************)
(* Properties of the strategy registry.                                    *)
(***************************************************************************)
\* C18: resolving an importer or extractor by an unregistered tag returns the
\* Regular strategy and no error, resolving by a registered tag returns the
\* strategy registered under it; an envelope with an unknown metadata.type is
\* therefore imported by the Regular importer.
C18_UnknownTagFallsBackToRegular ==
    /\ \A tag \in Tags :
          /\ GetImporter(tag) =
                IF tag \in DOMAIN importers THEN importers[tag] ELSE RegularImporter
          /\ GetExtractor(tag) =
                IF tag \in DOMAIN extractors THEN extractors[tag] ELSE RegularExtractor
    /\ \A i \in 1..Len(imports) :
          LET type == EnvelopeTypes[imports[i].content]
          IN  imports[i].importer =
                IF type \in DOMAIN importers THEN importers[type] ELSE RegularImporter

\* C18 happens: with a plugin's importer registered, an envelope of an unknown
\* type was imported by the Regular importer and one of the plugin's type by
\* the plugin's importer.
C18_Witness ==
    /\ DOMAIN importers = { Regular, <<"Custom">> }
    /\ \E i \in 1..Len(imports) :
          /\ EnvelopeTypes[imports[i].content] = <<"Bogus">>
          /\ imports[i].importer = RegularImporter
    /\ \E i \in 1..Len(imports) :
          /\ EnvelopeTypes[imports[i].content] = <<"Custom">>
          /\ imports[i].importer = CustomImporter

(***************************************************************************)
(* Properties of the Regular importer and extractor.                       *)
(***************************************************************************)
\* The rows of a table that a filter leaves out of scope, in their order.
Untouched(rows, filter) ==
    SelectSeq(rows, LAMBDA row : filter # NoFilter /\ ~Matches(filter, row))

\* The rows of the table outside the scope of the current do_import.
Kept == Untouched(rows_before, FilterOf(import_file))

\* do_import ended normally and nothing ran since.
ImportCompleted == dpc = "idle" /\ table_result = "completed"

\* C16: do_import with a filter deletes exactly the rows matching the filter
\* and leaves every other row unchanged; when it completes the table holds
\* the untouched rows plus one new row per record of data. Without a filter
\* every existing row is deleted.
C16_ReplacesRowsInScope ==
    /\ dpc = "adding" => db_rows = Kept
    /\ ImportCompleted =>
          /\ Len(db_rows) = Len(Kept) + Len(import_data)
          /\ SubSeq(db_rows, 1, Len(Kept)) = Kept
          /\ \A i \in 1..Len(import_data) :
                \A c \in DOMAIN import_data[i] :
                    db_rows[Len(Kept) + i][c] = import_data[i][c]
          /\ FilterOf(import_file) = NoFilter =>
                Len(db_rows) = Len(import_data)

\* C16 happens: an import with a filter completed on a table that held rows
\* inside and outside the filter, and inserted records.
C16_Witness ==
    /\ ImportCompleted
    /\ FilterOf(import_file) # NoFilter
    /\ Kept # << >>
    /\ Len(Kept) < Len(rows_before)
    /\ import_data # << >>

\* C17: do_import persists exactly twice, first the deletion and then the
\* insertion, and never inserts before the deletion is persisted; an
\* interruption between the two save points leaves the persisted table with
\* no row of the import scope and none of the new records.
C17_TwoSavePoints ==
    /\ Len(table_saves) <= 2
    /\ add_calls # << >> => Len(table_saves) >= 1
    /\ Len(table_saves) >= 1 => table_saves[1] = Kept
    /\ Len(table_saves) = 1 => db_rows = Kept
    /\ ImportCompleted =>
          /\ Len(table_saves) = 2
          /\ table_saves[2] = db_rows
          /\ Len(table_saves[2]) = Len(Kept) + Len(add_calls)

\* C17 happens: do_import was interrupted after the deletion was persisted and
\* records were added, on a table that held rows in the import scope.
C17_Witness ==
    /\ dpc = "idle"
    /\ table_result = "interrupted"
    /\ Len(table_saves) = 1
    /\ add_calls # << >>
    /\ Len(Kept) < Len(rows_before)

\* C19: every record RegularExtractor writes has exactly the columns of its
\* row whose value is not null, with their values; no record has a key with
\* a null value; the records are in the order the rows were retrieved.
C19_ExtractStripsNulls ==
    (table_result = "extracted" /\ call.self = RegularExtractor) =>
        /\ Len(extract_file.data) = Len(extract_rows)
        /\ \A i \in 1..Len(extract_rows) :
              LET record == extract_file.data[i]
                  row == extract_rows[i]
              IN  /\ DOMAIN record = { c \in Columns : row[c] # NULL }
                  /\ \A c \in DOMAIN record :
                        record[c] = row[c] /\ record[c] # NULL

\* C19 happens: an extract wrote two different records, one of a row with a
\* null column.
C19_Witness ==
    /\ table_result = "extracted"
    /\ call.self = RegularExtractor
    /\ \E i, j \in 1..Len(extract_rows) :
          /\ i < j
          /\ extract_rows[i] # extract_rows[j]
          /\ \E c \in Columns : extract_rows[i][c] = NULL
          /\ \A c \in Columns : extract_rows[j][c] # NULL

\* C20: when a record omits a column, the importer inserts the row assigning
\* only the keys present in the record; the omitted column is never assigned
\* (not even to null) and keeps its column default.
C20_OmittedColumnKeepsDefault ==
    /\ \A i \in 1..Len(add_calls) :
          /\ DOMAIN add_calls[i] = DOMAIN import_data[i]
          /\ \A c \in DOMAIN add_calls[i] : add_calls[i][c] = import_data[i][c]
    /\ ImportCompleted =>
          \A i \in 1..Len(import_data) :
             \A c \in Columns \ DOMAIN import_data[i] :
                db_rows[Len(Kept) + i][c] = ColumnDefault[c]

\* C20 happens: an import completed with a record that omits "value", and the
\* inserted row holds the default of that column, which is not null.
C20_Witness ==
    /\ ImportCompleted
    /\ \E i \in 1..Len(import_data) :
          /\ "value" \notin DOMAIN import_data[i]
          /\ db_rows[Len(Kept) + i]["value"] = ColumnDefault["value"]
          /\ ColumnDefault["value"] # NULL

(***************************************************************************)
(* Further properties of the migration runner.                             *)
(***************************************************************************)
\* C26: every migrate run first ensures that both tracking tables exist,
\* before any applied-check or script execution, and this initialization is
\* idempotent: where the tables exist it changes no table and no record.
C26_InitializeFirstAndIdempotent ==
    /\ [](runs > 0 =>
            {SchemaVersionTable, ImportDataVersionTable} \subseteq tables)
    /\ []((checks > 0 \/ executed # << >>) =>
            {SchemaVersionTable, ImportDataVersionTable} \subseteq tables)
    /\ [][ (runs' # runs /\
            {SchemaVersionTable, ImportDataVersionTable} \subseteq tables) =>
              /\ tables' = tables
              /\ schema_version' = schema_version
              /\ import_data_version' = import_data_version ]_vars

\* C26 happens: a second migrate run started on a database that already held
\* both tables and migration records.
C26_Witness ==
    /\ runs = 2
    /\ cur.nrec > 0
    /\ {SchemaVersionTable, ImportDataVersionTable} \subseteq tables

\* C28: the record written for an applied migration named
\* <version>__<description> (extension removed) has that name as file_name,
\* the first segment with "v" stripped and every "_" replaced by "." as
\* version, the second segment with every "_" replaced by a space as
\* description, and success 1.
C28_RecordFields ==
    \A i \in 1..Len(schema_version) :
        LET row == schema_version[i]
            parts == SplitDunder(row.file_name)
        IN  /\ \E e \in 1..Len(executed) :
                  RemoveExtension(Basename(executed[e].path)) = row.file_name
            /\ Len(parts) = 2
            /\ row.version = ReplaceChar(RemoveChar(parts[1], "v"), "_", ".")
            /\ row.description = ReplaceChar(parts[2], "_", " ")
            /\ row.success = 1

\* C28 happens: v2_1__b_c was applied and recorded as version 2.1 with the
\* description "b c".
C28_Witness ==
    \E i \in 1..Len(schema_version) :
        /\ schema_version[i].file_name = NameB
        /\ schema_version[i].version = <<"2", ".", "1">>
        /\ schema_version[i].description = <<"b", " ", "c">>
        /\ schema_version[i].success = 1

(***************************************************************************)
(* Further properties of the Regular importer and extractor.               *)
(***************************************************************************)
\* The rows of the table a filter selects, in their order.
Selected(rows, filter) ==
    SelectSeq(rows, LAMBDA row : filter = NoFilter \/ row[filter[1]] = << filter[2] >>)

\* C21: the exported envelope has a metadata.filter key if and only if a
\* filter was supplied to the export; a supplied filter is applied to the
\* table before the rows are retrieved and stored unchanged in metadata.filter.
C21_FilterKeyIffFilterSupplied ==
    (call.op = "do_extract" /\ table_result = "extracted") =>
        /\ "filter" \in DOMAIN extract_file.metadata <=> call.filter # NoFilter
        /\ call.filter # NoFilter => extract_file.metadata.filter = call.filter
        /\ extract_rows = Selected(db_rows, call.filter)
        /\ Len(extract_file.data) = Len(extract_rows)

\* C21 happens: an export with a filter retrieved some but not all rows of
\* the table.
C21_Witness ==
    /\ call.op = "do_extract"
    /\ table_result = "extracted"
    /\ call.filter = FilterInactive
    /\ extract_file.metadata.filter = FilterInactive
    /\ extract_rows # << >>
    /\ Len(extract_rows) < Len(db_rows)

\* C25: do_import with no target file designated exits the process before it
\* reads any file and before it reads or mutates any table.
C25_NoFileExitsBeforeAnyRead ==
    [][ (table_runs' # table_runs /\ call'.op = "do_import"
            /\ call'.file_path = NoneArg) =>
          /\ table_result' = "exit"
          /\ dpc' = "idle"
          /\ UNCHANGED << db_rows, import_table, import_file, add_no, rows_before,
                          table_saves, add_calls, extract_rows, extract_file >> ]_vars

\* C25 happens: do_import without a file exited on a table that holds rows.
C25_Witness ==
    /\ call.op = "do_import"
    /\ call.file_path = NoneArg
    /\ table_result = "exit"
    /\ db_rows # << >>

(***************************************************************************)
(* Further properties of the import command.                               *)
(***************************************************************************)
\* C22: in direct mode (a file path is designated in the invocation) the
\* import invokes exactly one importer, for that file if it is a readable
\* envelope and none otherwise, does not read the definition file even when
\* one is also given, and leaves import_data_version unchanged.
C22_DirectModeBypassesManifest ==
    [][ (import_runs' # import_runs /\ "file_path" \in DOMAIN import_args') =>
          /\ import_mode' = "direct"
          /\ ipc' = "idle"
          /\ [ op |-> "read_file", path |-> DefinitionPath ] \notin read_log'
          /\ UNCHANGED << import_data_version, scanned, saves, lines,
                          files_to_import >>
          /\ IF HasMetadata(FileContent(import_args'.file_path))
             THEN /\ Len(imports') = Len(imports) + 1
                  /\ SubSeq(imports', 1, Len(imports)) = imports
                  /\ imports'[Len(imports')].run = import_runs'
                  /\ imports'[Len(imports')].path = import_args'.file_path
                  /\ import_result' = "completed"
             ELSE imports' = imports ]_vars

\* C22 happens: a direct import, given a definition file as well, completed
\* on a file whose tracked checksum is out of date, and the record kept it.
C22_Witness ==
    /\ import_mode = "direct"
    /\ import_result = "completed"
    /\ "file_path" \in DOMAIN import_args
    /\ import_args.definition_file = DefinitionPath
    /\ Len(InvocationsNow) = 1
    /\ \E r \in import_data_version :
          /\ PathJoin(ManifestDir, r.file_name) = import_args.file_path
          /\ r.checksum # Checksum(FileContent(import_args.file_path))

C29_BlankAndCommentLinesSkipped ==
    /\ [][ ( /\ ipc = "scan"
             /\ line_no <= Len(lines)
             /\ StartsWith(ReachedLine, "#") \/ Len(ReachedLine) = 0 ) =>
             UNCHANGED << import_data_version, tables, scanned, saves,
                          files_to_import, imports, read_log, import_result >> ]_vars
    /\ []( ( /\ import_mode = "manifest"
             /\ import_result \in { "running", "completed" }
             /\ EntryLines = {} ) =>
             /\ ScannedNow = {}
             /\ InvocationsNow = << >>
             /\ \A s \in 1..Len(saves) : saves[s].run # import_runs
             /\ read_log = { [ op |-> "read_file", path |-> DefinitionPath ] } )

\* C29 happens: a manifest of a comment and a blank line completed on a
\* database that holds a tracking record.
C29_Witness ==
    /\ import_mode = "manifest"
    /\ import_result = "completed"
    /\ ipc = "idle"
    /\ Len(lines) >= 2
    /\ EntryLines = {}
    /\ import_data_version # {}

\* C30: the import command invoked with a single file designated through its
\* file-name argument and no definition file runs direct mode: exactly one
\* importer invocation for that file and no manifest processing.
C30_FileNameArgumentRunsDirectMode ==
    ( /\ import_runs > 0
      /\ ipc = "idle"
      /\ "file_name" \in DOMAIN import_args
      /\ import_args.file_name # NoneArg
      /\ import_args.definition_file = NoneArg
      /\ HasMetadata(FileContent(import_args.file_name)) )
    => /\ import_mode = "direct"
       /\ import_result = "completed"
       /\ Len(InvocationsNow) = 1
       /\ InvocationsNow[1].path = import_args.file_name

(***************************************************************************)
(* Properties of the command dispatch.                                     *)
(***************************************************************************)
\* C23: an exception raised by a dispatched command is caught once at the top
\* level of run, reported on stderr with the "Critical Error during
\* execution" prefix, and ends the process with a non-zero exit code; the
\* command is never retried.
C23_ExceptionCaughtOnceAtTopLevel ==
    /\ \A i \in 1..Len(run_log) :
          ( /\ run_log[i].via_run
            /\ "outcome" \in DOMAIN run_log[i]
            /\ run_log[i].outcome = "raised" ) =>
              /\ run_log[i].how = "exit"
              /\ run_log[i].code # 0
              /\ run_log[i].stderr = << "Critical Error during execution" >>
              /\ run_log[i].calls = 1
    /\ \A i \in 1..Len(run_log) : run_log[i].calls <= 1

\* C23 happens: a command dispatched by run raised an exception.
C23_Witness ==
    \E i \in 1..Len(run_log) :
        /\ run_log[i].via_run
        /\ "outcome" \in DOMAIN run_log[i]
        /\ run_log[i].outcome = "raised"
        /\ run_log[i].code = 1

\* The database paths explored, with environment variables expanded.
ExpandedDatabase(path) ==
    IF path = DbHome THEN << "/", "r", "/", "d", "b" >> ELSE path

\* C24: execute with no database path exits with code 1 before a database
\* manager is created and before the command's logic runs; with a database
\* path it expands environment variables in the path, creates the context
\* and runs the command's logic exactly once.
C24_ExecuteChecksDatabaseFirst ==
    /\ \A i \in 1..Len(run_log) :
          run_log[i].args # NoArgv =>
             IF run_log[i].args.database = NoneArg
             THEN /\ run_log[i].how = "exit"
                  /\ run_log[i].code # 0
                  /\ ~run_log[i].via_run => run_log[i].code = 1
                  /\ run_log[i].manager = NoManager
                  /\ run_log[i].calls = 0
             ELSE /\ run_log[i].manager = ExpandedDatabase(run_log[i].args.database)
                  /\ run_log[i].calls = 1
    /\ run_pc = "command" =>
          /\ run_call.args.database # NoneArg
          /\ run_call.manager = ExpandedDatabase(run_call.args.database)

\* C24 happens: execute was called without a database path, and with a path
\* that names an environment variable.
C24_Witness ==
    /\ \E i \in 1..Len(run_log) :
          /\ ~run_log[i].via_run
          /\ run_log[i].args.database = NoneArg
          /\ run_log[i].code = 1
    /\ \E i \in 1..Len(run_log) :
          /\ run_log[i].args.database = DbHome
          /\ run_log[i].manager = << "/", "r", "/", "d", "b" >>
          /\ run_log[i].calls = 1

\* The entries of the current run that name the same file as entry k and
\* precede it in the manifest.
EarlierEntries(k) ==
    { j \in ScannedNow : j < k /\ scanned[j].file_name = scanned[k].file_name }

\* C35: a file listed more than once in a manifest, its content unchanged
\* during the run, is imported at most once in that run: every occurrence after
\* the first finds the checksum the first one stored, and is skipped.
C35_RepeatedEntryImportedOnce ==
    import_mode = "manifest" =>
        /\ \A k \in ScannedNow :
              EarlierEntries(k) # {} =>
                 /\ scanned[k].stored = scanned[k].actual
                 /\ ~scanned[k].created
                 /\ \A j \in EarlierEntries(k) : scanned[j].actual = scanned[k].actual
        /\ \A p \in DataPaths :
              /\ Cardinality(InvocationsFor(p)) <= 1
              /\ Cardinality({ q \in 1..Len(files_to_import) :
                                  files_to_import[q] = p }) <= 1

\* C35 happens: a manifest run completed that met the same file twice, found it
\* changed the first time, and handed it to an importer once.
C35_Witness ==
    /\ ManifestRunEnded
    /\ import_result = "completed"
    /\ \E k \in ScannedNow :
          /\ EarlierEntries(k) # {}
          /\ \E j \in EarlierEntries(k) : scanned[j].stored # scanned[j].actual
          /\ Cardinality(InvocationsFor(PathOf(k))) = 1

\* C33: between manifest runs, also after a run that stopped on an error, a
\* tracking record whose stored checksum equals the checksum of the current
\* content of its file (a readable envelope) stands for an importer invocation
\* made for that content.
C33_StoredChecksumMeansImported ==
    ( /\ import_mode = "manifest"
      /\ ipc = "idle" )
    => \A r \in import_data_version :
          LET path == PathJoin(ManifestDir, r.file_name)
          IN  ( /\ HasMetadata(FileContent(path))
                /\ r.checksum = Checksum(FileContent(path)) )
              => \E i \in 1..Len(imports) :
                    /\ imports[i].path = path
                    /\ imports[i].content = FileContent(path)

\* C39: a manifest run reads and writes import_data_version only when that
\* table exists, because the import command creates it if it is missing: no
\* manifest run ends on the missing table, also on a database on which migrate
\* has never been run.
C39_ImportEnsuresTrackingTable ==
    import_mode = "manifest" =>
        /\ import_result # "OperationalError"
        /\ ( \E l \in read_log :
                /\ l.op = "file_checksum"
                /\ FileContent(l.path) # 0 )
           => ImportDataVersionTable \in tables

\* The add calls made for a tag, as positions in registered.
RegisteredFor(kind, word, tag) ==
    { i \in 1..Len(registered) :
        /\ registered[i].kind = kind
        /\ RemoveWord(registered[i].strategy.class, word) = tag }

\* The strategy of the last add call made for a tag.
LastRegistered(kind, word, tag) ==
    LET calls == RegisteredFor(kind, word, tag)
    IN  registered[CHOOSE i \in calls : \A j \in calls : j <= i].strategy

\* The strategies handed to add calls of a kind.
Strategies(kind) ==
    { registered[i].strategy : i \in { j \in 1..Len(registered) : registered[j].kind = kind } }

\* C38: after post_init and any sequence of add_importer and add_extractor
\* calls, get_importer and get_extractor return a registered strategy for every
\* tag, never nothing, and for a tag that was registered they return the
\* strategy of the last registration under it.
C38_LookupTotalAndLastWins ==
    \A tag \in Tags :
        /\ GetImporter(tag) \in Strategies("importer")
        /\ GetExtractor(tag) \in Strategies("extractor")
        /\ RegisteredFor("importer", "Importer", tag) # {} =>
              GetImporter(tag) = LastRegistered("importer", "Importer", tag)
        /\ RegisteredFor("extractor", "Extractor", tag) # {} =>
              GetExtractor(tag) = LastRegistered("extractor", "Extractor", tag)

\* C38 happens: a tag was registered twice with different importers and the
\* lookup returns the second one, while an unregistered tag resolves to the
\* Regular importer a plugin registered over the default.
C38_Witness ==
    /\ Cardinality(RegisteredFor("importer", "Importer", <<"Custom">>)) = 2
    /\ GetImporter(<<"Custom">>) = OtherCustomImporter
    /\ \E i \in RegisteredFor("importer", "Importer", <<"Custom">>) :
          registered[i].strategy = CustomImporter
    /\ GetImporter(<<"Bogus">>) = PluginRegularImporter

(***************************************************************************)
(* A migration script that raises.                                         *)
(***************************************************************************)

\* The scripts the current run executed to their end, and the records it wrote,
\* in order.
ExecutedNow == SelectSeq(executed, LAMBDA e : e.run = runs)
RecordedNow == SubSeq(schema_version, cur.nrec + 1, Len(schema_version))

\* C34: when the script of a migration raises, the run stops there: that
\* execution writes no schema_version record (the run's records are those of
\* the scripts it executed to their end, one each), no file at a later position
\* of the sorted list is executed in that run, and the records written earlier
\* in the run remain.
C34_ScriptErrorStopsRun ==
    /\ [](cur.failed # <<>> =>
            /\ pc = "idle"
            /\ result = "ScriptError"
            /\ migrations[idx] = cur.failed
            /\ Len(ExecutedNow) < idx
            /\ \A e \in 1..Len(ExecutedNow) :
                  \E i \in 1..(idx - 1) : migrations[i] = ExecutedNow[e].path
            /\ Len(RecordedNow) = Len(ExecutedNow)
            /\ \A e \in 1..Len(ExecutedNow) :
                  RecordedNow[e].file_name =
                     RemoveExtension(Basename(ExecutedNow[e].path)))
    /\ [][(cur.failed = <<>> /\ cur'.failed # <<>>) =>
            (schema_version' = schema_version /\ executed' = executed)]_vars

\* C34 happens: the second script of a run raised after the first was applied
\* and recorded; a file that sorts later, and is not recorded, was left alone.
C34_Witness ==
    /\ cur.failed # <<>>
    /\ result = "ScriptError"
    /\ Len(ExecutedNow) = 1
    /\ Len(RecordedNow) = 1
    /\ idx < Len(migrations)
    /\ Basename(migrations[idx]) # Basename(migrations[1])
    /\ ~MigrationExists(Basename(migrations[Len(migrations)]))

(***************************************************************************)
(* The hooks of the Regular strategies.                                    *)
(***************************************************************************)
\* do_import went past the check of its file argument.
ImportProceeded ==
    call.op = "do_import" /\ table_result \in { "running", "completed", "interrupted" }

\* C31: do_import calls _format_data exactly once, with the data and metadata
\* of the envelope as read, before the table is changed; the records handed
\* to add() are the records the hook returned, in order, and when the import
\* completes the rows inserted are one per returned record.
C31_FormatDataOnceBeforeMutation ==
    /\ [](ImportProceeded =>
            /\ Len(hook_calls) = 1
            /\ hook_calls[1].hook = "_format_data"
            /\ hook_calls[1].data = import_file.data
            /\ hook_calls[1].metadata = import_file.metadata
            /\ hook_calls[1].rows = rows_before
            /\ Len(add_calls) <= Len(hook_calls[1].returned)
            /\ \A i \in 1..Len(add_calls) : add_calls[i] = hook_calls[1].returned[i]
            /\ ImportCompleted =>
                  /\ Len(add_calls) = Len(hook_calls[1].returned)
                  /\ Len(db_rows) = Len(Kept) + Len(hook_calls[1].returned)
                  /\ \A i \in 1..Len(hook_calls[1].returned) :
                        \A c \in DOMAIN hook_calls[1].returned[i] :
                           db_rows[Len(Kept) + i][c] = hook_calls[1].returned[i][c])
    /\ [][(table_runs' # table_runs /\ call'.op = "do_import" /\ hook_calls' # << >>) =>
            (db_rows' = db_rows /\ table_saves' = << >> /\ add_calls' = << >>)]_vars
    /\ [][table_runs' = table_runs => hook_calls' = hook_calls]_vars

\* C31 happens: an import on an importer that overrides the hook completed,
\* and the rows inserted hold what the hook returned, not what the file held.
C31_Witness ==
    /\ ImportCompleted
    /\ call.self = CustomImporter
    /\ hook_calls[1].returned # hook_calls[1].data
    /\ Len(add_calls) = 2
    /\ \A i \in 1..Len(add_calls) :
          /\ add_calls[i] = hook_calls[1].returned[i]
          /\ db_rows[Len(Kept) + i]["value"] = <<"p">>

\* row.to_json(include_nulls=False) of each retrieved row, as a record.
Stripped(rows) ==
    [ i \in 1..Len(rows) |->
        [ c \in { k \in Columns : rows[i][k] # NULL } |-> rows[i][c] ] ]

\* C32: do_extract calls _post_extract exactly once, with the null-stripped
\* records of the retrieved rows, and the data of the envelope is the value
\* the hook returned.
C32_PostExtractOnceOnStrippedRecords ==
    (call.op = "do_extract" /\ table_result = "extracted") =>
        /\ Len(hook_calls) = 1
        /\ hook_calls[1].hook = "_post_extract"
        /\ hook_calls[1].data = Stripped(extract_rows)
        /\ extract_file.data = hook_calls[1].returned

\* C32 happens: an extract on an extractor that overrides the hook wrote what
\* the hook returned, which is not what it was given, for a row with a null.
C32_Witness ==
    /\ call.op = "do_extract"
    /\ table_result = "extracted"
    /\ call.self = CustomExtractor
    /\ hook_calls[1].returned # hook_calls[1].data
    /\ extract_file.data = hook_calls[1].returned
    /\ \E i \in 1..Len(extract_rows) :
          /\ extract_rows[i]["value"] = NULL
          /\ "value" \notin DOMAIN hook_calls[1].data[i]

(***************************************************************************)
(* Repeated imports and the round trip through an export.                  *)
(***************************************************************************)
\* Two row lists hold the same rows, each as often, in whatever order.
SameRows(a, b) ==
    /\ Len(a) = Len(b)
    /\ \A i \in 1..Len(a) :
          Cardinality({ j \in 1..Len(a) : a[j] = a[i] }) =
          Cardinality({ j \in 1..Len(b) : b[j] = a[i] })

\* C36: do_import is idempotent: importing an envelope again, right after an
\* import of the same envelope completed, leaves the table with the rows it
\* had after the first import, with or without a filter.
C36_ImportTwiceIsIdempotent ==
    (ImportCompleted /\ call.again) => SameRows(db_rows, rows_before)

\* The last call imported, with RegularImporter, the envelope that the call
\* before it extracted with RegularExtractor, and completed.
RoundTripCompleted ==
    /\ ImportCompleted
    /\ call.exported
    /\ call.self = RegularImporter
    /\ GetExtractor(extract_file.metadata.type) = RegularExtractor

\* C37: exporting a table with RegularExtractor and importing the envelope
\* with RegularImporter into the same database leaves the rows of the table
\* equal to the rows before the export, rows outside the filter included.
C37_ExportImportRoundTrip ==
    RoundTripCompleted => SameRows(db_rows, rows_before)

\* An exported row as the import of its record inserts it.
Reinserted(row) ==
    [ c \in Columns |-> IF row[c] = NULL THEN ColumnDefault[c] ELSE row[c] ]

\* C37 as the code has it: the rows outside the filter stay as they are and in
\* place, and every exported row is inserted again after them, in the order
\* retrieved, with the values of its non-null columns and the column default
\* in every column that was null.
C37_RoundTripUpToDefaults ==
    RoundTripCompleted =>
        /\ Len(db_rows) = Len(rows_before)
        /\ SubSeq(db_rows, 1, Len(Kept)) = Kept
        /\ Len(extract_rows) = Len(rows_before) - Len(Kept)
        /\ \A i \in 1..Len(extract_rows) :
              db_rows[Len(Kept) + i] = Reinserted(extract_rows[i])

\* C37 happens: a filtered export and the import of its envelope completed on
\* a table with rows inside and outside the filter; an exported row held a
\* null in a column whose default is not null, and the table differs from the
\* table before the export.
C37_Witness ==
    /\ RoundTripCompleted
    /\ FilterOf(import_file) # NoFilter
    /\ Kept # << >>
    /\ \E i \in 1..Len(extract_rows) :
          /\ extract_rows[i]["value"] = NULL
          /\ db_rows[Len(Kept) + i]["value"] = ColumnDefault["value"]
          /\ ColumnDefault["value"] # NULL
    /\ ~SameRows(db_rows, rows_before)

====
